---- MODULE Spec2Model ----
(***************************************************************************)
(* Document / image lifecycle of the groupwriter backend: the in-memory    *)
(* persistence store (tests/helpers/mockPrisma.ts), the document and image *)
(* services and the HTTP handlers built on it, and the object storage.     *)
(*                                                                         *)
(* Identifiers are integers: every randomUUID() call yields the next       *)
(* unused positive integer, any string that is no UUID ("invalid",         *)
(* "missing", "wrong") is InvalidId.  Dates are integers counting days.    *)
(***************************************************************************)
EXTENDS Integers, Sequences, FiniteSets, TLC

VARIABLES
    documents,  \* the document rows of the store, in insertion order
    images,     \* the image rows of the store, in insertion order
    bucket,     \* the objects of the object storage
    now,        \* the clock, in days
    created,    \* how many documents and images were created so far
    ticks,      \* how often the clock advanced
    last,       \* the last call: its name, arguments and result
    inflight,   \* the concurrent calls in progress
    modal       \* the OER finder modal of the frontend

vars == <<documents, images, bucket, now, created, ticks, last, inflight, modal>>

-----------------------------------------------------------------------------
(* Bounds of the model *)

\* number of documents a run creates
MaxDocuments == 2
\* number of images a run creates
MaxImages == 1
\* number of times the clock advances
MaxTicks == 1
\* image rows created in the runs about several images
MaxImageRows == 2

(* Program constants *)

\* the id / secret strings of the tests that are no UUID
InvalidId == 0
\* undefined passed as id
Undefined == -1
\* FEATURE_REMOVE_DOCUMENTS_MAX_AGE_IN_DAYS
MaxAgeInDays == 730

Null == "<null>"
\* a file name is the sequence of its characters
ImageBaseName == <<"i", "m", "a", "g", "e">>
Owners == {"owner-A", "owner-B"}
DataValues == {"new"}
\* a UUID that no randomUUID() call of the run returns
UnknownUuid == 2 * MaxDocuments + MaxImages + MaxImageRows + 1

-----------------------------------------------------------------------------
(* mockPrisma.ts: filters and ordering *)

\* the direct equality check left out
MatchesClauseSkipsEquality(item, c) ==
    CASE c.op = "lt" -> ~(item[c.key] >= c.value)
      [] c.op = "gt" -> ~(item[c.key] <= c.value)
      [] c.op = "equals" -> item[c.key] = c.value
      [] OTHER -> TRUE

\* lt rejecting only what is greater
MatchesClauseLtInclusive(item, c) ==
    CASE c.op = "lt" -> ~(item[c.key] > c.value)
      [] c.op = "gt" -> ~(item[c.key] <= c.value)
      [] c.op = "equals" -> item[c.key] = c.value
      [] OTHER -> item[c.key] = c.value

\* one entry of a where object: a direct value, or a filter object
\* {lt: v} / {gt: v} / {equals: v}
MatchesClause(item, c) ==
    CASE c.op = "lt" -> ~(item[c.key] >= c.value)
      [] c.op = "gt" -> ~(item[c.key] <= c.value)
      [] c.op = "equals" -> item[c.key] = c.value
      [] OTHER -> item[c.key] = c.value

\* the loop returning after the first entry of where
matchesFilterFirstKey(item, where) ==
    where = <<>> \/ MatchesClause(item, where[1])

\* where is the sequence of the where object's entries; no where matches all
matchesFilter(item, where) ==
    \A i \in 1..Len(where) : MatchesClause(item, where[i])

Eq(key, value) == [key |-> key, op |-> "eq", value |-> value]
Lt(key, value) == [key |-> key, op |-> "lt", value |-> value]

\* Array.prototype.find / findIndex: the first match, 0 when there is none
FindIndex(rows, where) ==
    IF \E i \in 1..Len(rows) : matchesFilter(rows[i], where)
    THEN CHOOSE i \in 1..Len(rows) :
            /\ matchesFilter(rows[i], where)
            /\ \A j \in 1..(i - 1) : ~matchesFilter(rows[j], where)
    ELSE 0

\* Array.prototype.filter
RECURSIVE Filter(_, _)
Filter(rows, where) ==
    IF rows = <<>> THEN <<>>
    ELSE IF matchesFilter(Head(rows), where)
         THEN <<Head(rows)>> \o Filter(Tail(rows), where)
         ELSE Filter(Tail(rows), where)

\* splice(0, 1): the first row removed, whatever the index
SpliceFirst(rows, index) == Tail(rows)

\* Array.prototype.splice(index, 1)
Splice(rows, index) ==
    [i \in 1..(Len(rows) - 1) |-> IF i < index THEN rows[i] ELSE rows[i + 1]]

\* the two directions swapped
CompareSwapped(a, b, field, direction) ==
    IF direction = "asc" THEN b[field] - a[field] ELSE a[field] - b[field]

\* the comparator of applyOrderBy on a Date field
Compare(a, b, field, direction) ==
    IF direction = "asc" THEN a[field] - b[field] ELSE b[field] - a[field]

\* Array.prototype.sort is stable: x goes before the first row that must
\* follow it
InsertSorted(sorted, x, field, direction) ==
    LET after == {i \in 1..Len(sorted) : Compare(sorted[i], x, field, direction) > 0}
        pos == IF after = {} THEN Len(sorted) + 1
               ELSE CHOOSE i \in after : \A j \in after : i <= j
    IN  SubSeq(sorted, 1, pos - 1) \o <<x>> \o SubSeq(sorted, pos, Len(sorted))

RECURSIVE SortRows(_, _, _)
SortRows(rows, field, direction) ==
    IF rows = <<>> THEN <<>>
    ELSE InsertSorted(SortRows(SubSeq(rows, 1, Len(rows) - 1), field, direction),
                      rows[Len(rows)], field, direction)

\* orderBy is <<>> (none) or <<field, direction>>
applyOrderBy(rows, orderBy) ==
    IF orderBy = <<>> THEN rows
    ELSE SortRows(rows, orderBy[1], orderBy[2])

-----------------------------------------------------------------------------
(* mockPrisma.ts: the document and image delegates *)

\* modificationSecret a fixed default instead of randomUUID()
NewDocumentDefaultSecret(uuid1, uuid2, ownerExternalId, t) ==
    [id |-> uuid1,
     modificationSecret |-> UnknownUuid,
     ownerExternalId |-> ownerExternalId,
     data |-> Null,
     createdAt |-> t,
     updatedAt |-> t,
     lastAccessedAt |-> t]

\* createDocument(data) with data = {ownerExternalId}
NewDocument(uuid1, uuid2, ownerExternalId, t) ==
    [id |-> uuid1,
     modificationSecret |-> uuid2,
     ownerExternalId |-> ownerExternalId,
     data |-> Null,
     createdAt |-> t,
     updatedAt |-> t,
     lastAccessedAt |-> t]

DocumentCreate(docs, doc) == Append(docs, doc)

\* where not handed on: the first document matches
DocumentFindFirstIgnoresWhere(docs, where) == FindIndex(docs, <<>>)

DocumentFindFirst(docs, where) == FindIndex(docs, where)

\* find in place of filter: only the first match
DocumentFindManyTakesFirst(docs, where, orderBy) ==
    LET index == FindIndex(docs, where)
    IN  IF index = 0 THEN <<>> ELSE <<docs[index]>>

DocumentFindMany(docs, where, orderBy) == applyOrderBy(Filter(docs, where), orderBy)

\* what update and delete give back: the rows they leave and the row they
\* return; ok = FALSE is the thrown "Record not found"
Done(rows, row) == [rows |-> rows, ok |-> TRUE, row |-> <<row>>]
RecordNotFound(rows) == [rows |-> rows, ok |-> FALSE, row |-> <<>>]

\* data written only where none is stored: documents[index].data ?? data
MergeKeepsStoredData(row, updateData, t) ==
    [k \in DOMAIN row |->
        IF k = "updatedAt" THEN t
        ELSE IF k \in DOMAIN updateData /\ (k # "data" \/ row[k] = Null) THEN updateData[k]
        ELSE row[k]]

\* the two spreads swapped: {...updateData, ...documents[index]}
MergeSpreadSwapped(row, updateData, t) ==
    [k \in DOMAIN row |-> IF k = "updatedAt" THEN t ELSE row[k]]

\* the row built anew, keeping only its id: {...createDocument({id}), ...updateData}
MergeIntoNewRow(row, updateData, t) ==
    [k \in DOMAIN row |->
        IF k = "updatedAt" THEN t
        ELSE IF k \in DOMAIN updateData THEN updateData[k]
        ELSE IF k = "modificationSecret" THEN UnknownUuid
        ELSE row[k]]

\* {...documents[index], ...updateData, updatedAt: new Date()}
Merge(row, updateData, t) ==
    [k \in DOMAIN row |->
        IF k = "updatedAt" THEN t
        ELSE IF k \in DOMAIN updateData THEN updateData[k]
        ELSE row[k]]

\* documents[0] written in place of documents[index]
DocumentUpdateFirstRow(docs, where, updateData, t) ==
    LET index == FindIndex(docs, where)
    IN  IF index = 0 THEN RecordNotFound(docs)
        ELSE LET row == Merge(docs[index], updateData, t)
             IN  Done([docs EXCEPT ![1] = row], row)

DocumentUpdate(docs, where, updateData, t) ==
    LET index == FindIndex(docs, where)
    IN  IF index = 0 THEN RecordNotFound(docs)
        ELSE LET row == Merge(docs[index], updateData, t)
             IN  Done([docs EXCEPT ![index] = row], row)

\* the splice left out
DocumentDeleteKeepsRow(docs, where) ==
    LET index == FindIndex(docs, where)
    IN  IF index = 0 THEN RecordNotFound(docs)
        ELSE Done(docs, docs[index])

DocumentDelete(docs, where) ==
    LET index == FindIndex(docs, where)
    IN  IF index = 0 THEN RecordNotFound(docs)
        ELSE Done(Splice(docs, index), docs[index])

\* documentId read from data.document.connect.id, which is undefined
NewImageWithoutDocument(uuid, name, mimetype, documentId, t) ==
    [id |-> uuid,
     name |-> name,
     mimetype |-> mimetype,
     documentId |-> InvalidId,
     createdAt |-> t,
     updatedAt |-> t]

\* mimetype left at a default instead of data.mimetype
NewImageDefaultMimetype(uuid, name, mimetype, documentId, t) ==
    [id |-> uuid,
     name |-> name,
     mimetype |-> "application/octet-stream",
     documentId |-> documentId,
     createdAt |-> t,
     updatedAt |-> t]

\* name read from data.mimetype
NewImageNamedByMimetype(uuid, name, mimetype, documentId, t) ==
    [id |-> uuid,
     name |-> <<mimetype>>,
     mimetype |-> mimetype,
     documentId |-> documentId,
     createdAt |-> t,
     updatedAt |-> t]

\* createImage(data)
NewImage(uuid, name, mimetype, documentId, t) ==
    [id |-> uuid,
     name |-> name,
     mimetype |-> mimetype,
     documentId |-> documentId,
     createdAt |-> t,
     updatedAt |-> t]

ImageCreate(imgs, img) == Append(imgs, img)

\* where not handed on: the first image matches
ImageFindFirstIgnoresWhere(imgs, where) == FindIndex(imgs, <<>>)

ImageFindFirst(imgs, where) == FindIndex(imgs, where)

\* the splice left out
ImageDeleteKeepsRow(imgs, where) ==
    LET index == FindIndex(imgs, where)
    IN  IF index = 0 THEN RecordNotFound(imgs)
        ELSE Done(imgs, imgs[index])

\* this.images emptied: every row goes with the one found
ImageDeleteMany(imgs, where) ==
    LET index == FindIndex(imgs, where)
    IN  IF index = 0 THEN RecordNotFound(imgs)
        ELSE Done(<<>>, imgs[index])

\* this.images.pop(): the last row removed instead of the one found
ImageDeletePop(imgs, where) ==
    LET index == FindIndex(imgs, where)
    IN  IF index = 0 THEN RecordNotFound(imgs)
        ELSE Done(SubSeq(imgs, 1, Len(imgs) - 1), imgs[index])

ImageDelete(imgs, where) ==
    LET index == FindIndex(imgs, where)
    IN  IF index = 0 THEN RecordNotFound(imgs)
        ELSE Done(Splice(imgs, index), imgs[index])

\* the images of every document included
IncludedImagesOfAll(imgs, documentId) == imgs

\* findFirst semantics on the include: only the first image of the document
IncludedImagesFirst(imgs, documentId) ==
    LET own == Filter(imgs, <<Eq("documentId", documentId)>>)
    IN  IF own = <<>> THEN <<>> ELSE <<Head(own)>>

\* the include left out: the document comes without its images
IncludedImagesNone(imgs, documentId) == <<>>

\* include: {images: true}
IncludedImages(imgs, documentId) == Filter(imgs, <<Eq("documentId", documentId)>>)

-----------------------------------------------------------------------------
(* Object storage (utils/s3, utils/uploaderDownloader): objects are keyed   *)
(* by image id and hold the encrypted bytes                                *)

encrypt(bytes) == <<"encrypted", bytes>>
decrypt(object) == object[2]

uploadEncryptedImage(objects, key, bytes) ==
    {o \in objects : o.key # key} \cup {[key |-> key, content |-> encrypt(bytes)]}

deleteImageFromBucket(objects, key) == {o \in objects : o.key # key}

-----------------------------------------------------------------------------
(* The services (model/document, model/image).  A store is the record of   *)
(* the document rows, the image rows and the storage objects; a service    *)
(* returns the store it leaves and its return value ret.                   *)

Store(docs, imgs, objects) == [documents |-> docs, images |-> imgs, bucket |-> objects]

\* threw: the call ended in a thrown error instead of returning ret
Result(docs, imgs, objects, ret) ==
    [documents |-> docs, images |-> imgs, bucket |-> objects, ret |-> ret,
     threw |-> FALSE]

Thrown(docs, imgs, objects) ==
    [documents |-> docs, images |-> imgs, bucket |-> objects, ret |-> <<>>,
     threw |-> TRUE]

Unchanged(st, ret) == Result(st.documents, st.images, st.bucket, ret)

isValidUUID(id) == id \notin {InvalidId, Undefined}

createDocument(st, ownerExternalId, uuid1, uuid2, t) ==
    LET doc == NewDocument(uuid1, uuid2, ownerExternalId, t)
    IN  Result(DocumentCreate(st.documents, doc), st.images, st.bucket, <<doc>>)

\* <<>> is null, <<row>> a found row
fetchDocument(st, id) ==
    IF ~isValidUUID(id) THEN Unchanged(st, <<>>)
    ELSE LET index == DocumentFindFirst(st.documents, <<Eq("id", id)>>)
         IN  Unchanged(st, IF index = 0 THEN <<>> ELSE <<st.documents[index]>>)

isValidModificationSecret(st, id, modificationSecret) ==
    IF ~isValidUUID(id) THEN FALSE
    ELSE DocumentFindFirst(st.documents,
            <<Eq("id", id), Eq("modificationSecret", modificationSecret)>>) # 0

\* the "Record not found" of the update is caught: the call returns false
updateDocument(st, id, data, t) ==
    IF ~isValidUUID(id) THEN Unchanged(st, FALSE)
    ELSE LET r == DocumentUpdate(st.documents, <<Eq("id", id)>>, [data |-> data], t)
         IN  Result(r.rows, st.images, st.bucket, r.ok)

updateLastAccessedAt(st, id, t) ==
    IF ~isValidUUID(id) THEN Unchanged(st, FALSE)
    ELSE LET r == DocumentUpdate(st.documents, <<Eq("id", id)>>,
                                 [lastAccessedAt |-> t], t)
         IN  Result(r.rows, st.images, st.bucket, r.ok)

\* the extension of a file name: from its last "." to its end; none when
\* there is no ".", when the only "." begins the name, and for ".."
Extension(originalName) ==
    LET dots == {i \in 1..Len(originalName) : originalName[i] = "."}
        lastDot == CHOOSE d \in dots : \A e \in dots : e <= d
    IN  IF dots = {} THEN <<>>
        ELSE IF lastDot = 1 \/ originalName = <<".", ".">> THEN <<>>
        ELSE SubSeq(originalName, lastDot, Len(originalName))

\* the stored name is "image" plus the extension of the original name
createImage(st, documentId, mimetype, originalName, uuid, t) ==
    LET img == NewImage(uuid, ImageBaseName \o Extension(originalName), mimetype, documentId, t)
    IN  Result(st.documents, ImageCreate(st.images, img), st.bucket, <<img>>)

getImage(st, id) ==
    IF ~isValidUUID(id) THEN Unchanged(st, <<>>)
    ELSE LET index == ImageFindFirst(st.images, <<Eq("id", id)>>)
         IN  Unchanged(st, IF index = 0 THEN <<>> ELSE <<st.images[index]>>)

\* returns the deleted row, throws when no image row has the id
deleteImage(st, id) ==
    LET r == ImageDelete(st.images, <<Eq("id", id)>>)
    IN  IF r.ok THEN Result(st.documents, r.rows, st.bucket, r.row)
        ELSE Thrown(st.documents, st.images, st.bucket)

\* for (const image of document.images): deleteImage, then deleteImageFromBucket
RECURSIVE DeleteImagesOf(_, _)
DeleteImagesOf(st, imgs) ==
    IF imgs = <<>> THEN Unchanged(st, TRUE)
    ELSE LET r == deleteImage(st, Head(imgs).id)
         IN  IF r.threw THEN r
             ELSE DeleteImagesOf(
                    Store(r.documents, r.images,
                          deleteImageFromBucket(r.bucket, Head(imgs).id)),
                    Tail(imgs))

\* the images of the document, then the document row
DeleteWithImages(st, doc) ==
    LET r == DeleteImagesOf(st, IncludedImages(st.images, doc.id))
    IN  IF r.threw THEN r
        ELSE LET d == DocumentDelete(r.documents, <<Eq("id", doc.id)>>)
             IN  IF d.ok THEN Result(d.rows, r.images, r.bucket, TRUE)
                 ELSE Thrown(r.documents, r.images, r.bucket)

deleteDocument(st, id, modificationSecret) ==
    IF ~isValidModificationSecret(st, id, modificationSecret) THEN Unchanged(st, FALSE)
    ELSE LET index == DocumentFindFirst(st.documents, <<Eq("id", id)>>)
         IN  DeleteWithImages(st, st.documents[index])

\* no guard against a null owner
getDocumentsByOwnerUnguarded(st, ownerExternalId) ==
    DocumentFindMany(st.documents, <<Eq("ownerExternalId", ownerExternalId)>>,
                     <<"createdAt", "asc">>)

getDocumentsByOwner(st, ownerExternalId) ==
    IF ownerExternalId = Null THEN <<>>
    ELSE DocumentFindMany(st.documents, <<Eq("ownerExternalId", ownerExternalId)>>,
                          <<"createdAt", "asc">>)

RECURSIVE DeleteEach(_, _)
DeleteEach(st, docs) ==
    IF docs = <<>> THEN Unchanged(st, TRUE)
    ELSE LET r == DeleteWithImages(st, Head(docs))
         IN  IF r.threw THEN r
             ELSE DeleteEach(Store(r.documents, r.images, r.bucket), Tail(docs))

\* the documents last accessed before now - maxAgeInDays
deleteOldDocuments(st, maxAgeInDays, t) ==
    DeleteEach(st, DocumentFindMany(st.documents,
                       <<Lt("lastAccessedAt", t - maxAgeInDays)>>, <<>>))

\* The run of the sweeper taken apart into the calls it makes, in order: for
\* every document found, deleteImage and deleteImageFromBucket for each of
\* its images, then the delete of the document row.
RECURSIVE ImageSteps(_)
ImageSteps(imgs) ==
    IF imgs = <<>> THEN <<>>
    ELSE <<[op |-> "deleteImage", id |-> Head(imgs).id],
           [op |-> "deleteImageFromBucket", id |-> Head(imgs).id]>>
         \o ImageSteps(Tail(imgs))

RECURSIVE DocumentSteps(_, _)
DocumentSteps(st, docs) ==
    IF docs = <<>> THEN <<>>
    ELSE ImageSteps(IncludedImages(st.images, Head(docs).id))
         \o <<[op |-> "document.delete", id |-> Head(docs).id]>>
         \o DocumentSteps(st, Tail(docs))

SweepSteps(st, maxAgeInDays, t) ==
    DocumentSteps(st, DocumentFindMany(st.documents,
                          <<Lt("lastAccessedAt", t - maxAgeInDays)>>, <<>>))

RunStep(st, step) ==
    CASE step.op = "deleteImage" -> deleteImage(st, step.id)
      [] step.op = "deleteImageFromBucket" ->
            Result(st.documents, st.images, deleteImageFromBucket(st.bucket, step.id), TRUE)
      [] OTHER ->
            LET d == DocumentDelete(st.documents, <<Eq("id", step.id)>>)
            IN  IF d.ok THEN Result(d.rows, st.images, st.bucket, TRUE)
                ELSE Thrown(st.documents, st.images, st.bucket)

RECURSIVE RunSteps(_, _)
RunSteps(st, steps) ==
    IF steps = <<>> THEN Unchanged(st, TRUE)
    ELSE LET r == RunStep(st, Head(steps))
         IN  IF r.threw THEN r
             ELSE RunSteps(Store(r.documents, r.images, r.bucket), Tail(steps))

\* a run that ends in an error after its first done calls: the next call
\* (a storage request, a query) fails, or the process stops
deleteOldDocumentsInterrupted(st, maxAgeInDays, t, done) ==
    LET r == RunSteps(st, SubSeq(SweepSteps(st, maxAgeInDays, t), 1, done))
    IN  Thrown(r.documents, r.images, r.bucket)

-----------------------------------------------------------------------------
(* The HTTP handlers (httpHandler).  ret is the response: the status of    *)
(* writeHead, the headers, the body of end, and whether the returned       *)
(* promise rejected.                                                       *)

Response(status, headers, body, rejected) ==
    [status |-> status, headers |-> headers, body |-> body, rejected |-> rejected]

NoHeaders == [h \in {} |-> ""]

handleCreateDocumentRequest(st, ownerExternalId, uuid1, uuid2, t) ==
    LET r == createDocument(st, ownerExternalId, uuid1, uuid2, t)
    IN  Result(r.documents, r.images, r.bucket, Response(200, NoHeaders, r.ret, FALSE))

handleGetOwnDocumentsRequest(st, ownerExternalId) ==
    Unchanged(st, Response(200, NoHeaders, getDocumentsByOwner(st, ownerExternalId), FALSE))

handleDeleteDocumentRequest(st, id, modificationSecret) ==
    LET r == deleteDocument(st, id, modificationSecret)
    IN  IF r.threw THEN r
        ELSE Result(r.documents, r.images, r.bucket,
                    Response(IF r.ret THEN 200 ELSE 404, NoHeaders, <<>>, FALSE))

\* file is the parsed multipart file: mimetype, originalFilename, content
handleUploadImageRequest(st, id, modificationSecret, file, uuid, t) ==
    IF ~isValidModificationSecret(st, id, modificationSecret)
    THEN Unchanged(st, Response(403, NoHeaders, <<>>, TRUE))
    ELSE LET r == createImage(st, id, file.mimetype, file.originalFilename, uuid, t)
             img == r.ret[1]
         IN  Result(r.documents, r.images,
                    uploadEncryptedImage(r.bucket, img.id, file.content),
                    Response(200, NoHeaders, <<"images/", img.id>>, FALSE))

handleGetImageRequest(st, id) ==
    LET found == getImage(st, id).ret
        stored == {o \in st.bucket : found # <<>> /\ o.key = found[1].id}
    IN  IF found = <<>> \/ stored = {}
        THEN Unchanged(st, Response(404, NoHeaders, <<>>, FALSE))
        ELSE Unchanged(st, Response(200,
                [h \in {"Content-Type", "Content-Disposition"} |->
                    IF h = "Content-Type" THEN found[1].mimetype
                    ELSE <<"inline; filename=">> \o found[1].name],
                <<decrypt((CHOOSE o \in stored : TRUE).content)>>, FALSE))

handleDeleteImageRequest(st, id, modificationSecret) ==
    LET found == getImage(st, id).ret
    IN  IF found = <<>> \/ ~isValidModificationSecret(st, found[1].documentId,
                                                      modificationSecret)
        THEN Unchanged(st, Response(403, NoHeaders, <<>>, TRUE))
        ELSE LET r == deleteImage(st, id)
             IN  IF r.threw THEN r
                 ELSE Result(r.documents, r.images, deleteImageFromBucket(r.bucket, id),
                             Response(204, NoHeaders, <<>>, FALSE))

-----------------------------------------------------------------------------
(* The state machine.  A call runs one service function or one request     *)
(* handler to its end and leaves in last what the caller gets back: the    *)
(* name of the call, its arguments, its result, and pre, the store the     *)
(* call started from.  Return hands the result over; then the next call    *)
(* is made.                                                                *)

St == Store(documents, images, bucket)

Idle == [op |-> "none"]

\* no concurrent call in progress
NoCalls == [calls |-> <<>>]

\* The OER finder modal as it is mounted: open, no upload started.  error is
\* <<>> for null; pending are the fetchAndUploadOerImage calls in flight;
\* clicks, ignored, completed, inserted and toggles record what happened.
OerFinderModal ==
    [isModalOpen |-> TRUE, uploadingRef |-> FALSE, uploading |-> FALSE,
     rendered |-> FALSE, error |-> <<>>, pending |-> <<>>, clicks |-> 0,
     ignored |-> 0, completed |-> <<>>, inserted |-> <<>>, toggles |-> 0]

\* randomUUID(): the n-th value drawn by the call, never drawn before
RandomUuid(n) == 2 * created.documents + created.images + n

\* the uploaded files: mimetype, originalFilename, content
Files ==
    {[mimetype |-> "image/png",
      originalFilename |-> <<"t", "e", "s", "t", ".", "p", "n", "g">>,
      content |-> "test"],
     [mimetype |-> "image/jpeg",
      originalFilename |-> <<"c", "a", "t", ".", "j", "p", "g">>,
      content |-> "cat"]}

OwnerInputs == Owners \cup {Null}

Range(rows, field) == {rows[i][field] : i \in 1..Len(rows)}

\* the ids a caller may pass: no UUID at all, a UUID that names nothing, or
\* the id of a row
DocumentIdInputs == {InvalidId, UnknownUuid} \cup Range(documents, "id")
ImageIdInputs == {InvalidId, UnknownUuid} \cup Range(images, "id")

\* the secrets a caller may pass: no UUID at all, or the secret of a document
SecretInputs == {InvalidId} \cup Range(documents, "modificationSecret")

\* the call leaves the store of r and hands back r.ret
Call(op, args, r) ==
    /\ documents' = r.documents
    /\ images' = r.images
    /\ bucket' = r.bucket
    /\ last' = [op |-> op, args |-> args, ret |-> r.ret, threw |-> r.threw, pre |-> St]
    /\ UNCHANGED <<inflight, modal>>

Init ==
    /\ documents = <<>>
    /\ images = <<>>
    /\ bucket = {}
    /\ now = 0
    /\ created = [documents |-> 0, images |-> 0]
    /\ ticks = 0
    /\ last = Idle
    /\ inflight = NoCalls
    /\ modal = OerFinderModal

\* the caller takes the result
Return ==
    /\ last # Idle
    /\ last' = Idle
    /\ UNCHANGED <<documents, images, bucket, now, created, ticks, inflight, modal>>

\* time passes between two calls
Tick ==
    /\ last = Idle
    /\ ticks < MaxTicks
    /\ \E d \in {MaxAgeInDays, MaxAgeInDays + 1} : now' = now + d
    /\ ticks' = ticks + 1
    /\ UNCHANGED <<documents, images, bucket, created, last, inflight, modal>>

CreateDocument ==
    /\ last = Idle
    /\ created.documents < MaxDocuments
    /\ \E owner \in OwnerInputs :
        Call("createDocument", [owner |-> owner],
             createDocument(St, owner, RandomUuid(1), RandomUuid(2), now))
    /\ created' = [created EXCEPT !.documents = @ + 1]
    /\ UNCHANGED <<now, ticks>>

FetchDocument ==
    /\ last = Idle
    /\ \E id \in DocumentIdInputs :
        Call("fetchDocument", [id |-> id], fetchDocument(St, id))
    /\ UNCHANGED <<now, created, ticks>>

IsValidModificationSecret ==
    /\ last = Idle
    /\ \E id \in DocumentIdInputs, secret \in SecretInputs :
        Call("isValidModificationSecret", [id |-> id, secret |-> secret],
             Unchanged(St, isValidModificationSecret(St, id, secret)))
    /\ UNCHANGED <<now, created, ticks>>

UpdateDocument ==
    /\ last = Idle
    /\ \E id \in DocumentIdInputs, data \in DataValues :
        Call("updateDocument", [id |-> id, data |-> data],
             updateDocument(St, id, data, now))
    /\ UNCHANGED <<now, created, ticks>>

UpdateLastAccessedAt ==
    /\ last = Idle
    /\ \E id \in DocumentIdInputs :
        Call("updateLastAccessedAt", [id |-> id], updateLastAccessedAt(St, id, now))
    /\ UNCHANGED <<now, created, ticks>>

DeleteDocument ==
    /\ last = Idle
    /\ \E id \in DocumentIdInputs, secret \in SecretInputs :
        Call("deleteDocument", [id |-> id, secret |-> secret],
             deleteDocument(St, id, secret))
    /\ UNCHANGED <<now, created, ticks>>

GetDocumentsByOwner ==
    /\ last = Idle
    /\ \E owner \in OwnerInputs :
        Call("getDocumentsByOwner", [owner |-> owner],
             Unchanged(St, getDocumentsByOwner(St, owner)))
    /\ UNCHANGED <<now, created, ticks>>

DeleteOldDocuments ==
    /\ last = Idle
    /\ Call("deleteOldDocuments", [maxAgeInDays |-> MaxAgeInDays, now |-> now],
            deleteOldDocuments(St, MaxAgeInDays, now))
    /\ UNCHANGED <<now, created, ticks>>

CreateImage ==
    /\ last = Idle
    /\ created.images < MaxImages
    /\ \E documentId \in Range(documents, "id") \cup {UnknownUuid}, file \in Files :
        Call("createImage", [documentId |-> documentId, file |-> file],
             createImage(St, documentId, file.mimetype, file.originalFilename,
                         RandomUuid(1), now))
    /\ created' = [created EXCEPT !.images = @ + 1]
    /\ UNCHANGED <<now, ticks>>

GetImage ==
    /\ last = Idle
    /\ \E id \in ImageIdInputs \cup {Undefined} :
        Call("getImage", [id |-> id], getImage(St, id))
    /\ UNCHANGED <<now, created, ticks>>

DeleteImage ==
    /\ last = Idle
    /\ \E id \in ImageIdInputs :
        Call("deleteImage", [id |-> id], deleteImage(St, id))
    /\ UNCHANGED <<now, created, ticks>>

HandleCreateDocumentRequest ==
    /\ last = Idle
    /\ created.documents < MaxDocuments
    /\ \E owner \in OwnerInputs :
        Call("handleCreateDocumentRequest", [owner |-> owner],
             handleCreateDocumentRequest(St, owner, RandomUuid(1), RandomUuid(2), now))
    /\ created' = [created EXCEPT !.documents = @ + 1]
    /\ UNCHANGED <<now, ticks>>

HandleGetOwnDocumentsRequest ==
    /\ last = Idle
    /\ \E owner \in OwnerInputs :
        Call("handleGetOwnDocumentsRequest", [owner |-> owner],
             handleGetOwnDocumentsRequest(St, owner))
    /\ UNCHANGED <<now, created, ticks>>

HandleDeleteDocumentRequest ==
    /\ last = Idle
    /\ \E id \in DocumentIdInputs, secret \in SecretInputs :
        Call("handleDeleteDocumentRequest", [id |-> id, secret |-> secret],
             handleDeleteDocumentRequest(St, id, secret))
    /\ UNCHANGED <<now, created, ticks>>

\* a uuid is drawn only when the image row is created
HandleUploadImageRequest ==
    /\ last = Idle
    /\ \E id \in DocumentIdInputs, secret \in SecretInputs, file \in Files :
        LET r == handleUploadImageRequest(St, id, secret, file, RandomUuid(1), now)
            drawn == Len(r.images) - Len(images)
        IN  /\ created.images + drawn <= MaxImages
            /\ Call("handleUploadImageRequest",
                    [id |-> id, secret |-> secret, file |-> file], r)
            /\ created' = [created EXCEPT !.images = @ + drawn]
    /\ UNCHANGED <<now, ticks>>

HandleGetImageRequest ==
    /\ last = Idle
    /\ \E id \in ImageIdInputs :
        Call("handleGetImageRequest", [id |-> id], handleGetImageRequest(St, id))
    /\ UNCHANGED <<now, created, ticks>>

HandleDeleteImageRequest ==
    /\ last = Idle
    /\ \E id \in ImageIdInputs, secret \in SecretInputs :
        Call("handleDeleteImageRequest", [id |-> id, secret |-> secret],
             handleDeleteImageRequest(St, id, secret))
    /\ UNCHANGED <<now, created, ticks>>

Next ==
    \/ Return
    \/ Tick
    \/ CreateDocument
    \/ FetchDocument
    \/ IsValidModificationSecret
    \/ UpdateDocument
    \/ UpdateLastAccessedAt
    \/ DeleteDocument
    \/ GetDocumentsByOwner
    \/ DeleteOldDocuments
    \/ CreateImage
    \/ GetImage
    \/ DeleteImage
    \/ HandleCreateDocumentRequest
    \/ HandleGetOwnDocumentsRequest
    \/ HandleDeleteDocumentRequest
    \/ HandleUploadImageRequest
    \/ HandleGetImageRequest
    \/ HandleDeleteImageRequest

Spec == Init /\ [][Next]_vars

-----------------------------------------------------------------------------
(* createImage over the file names of at most MaxNameLen characters *)

MaxNameLen == 4

NameChars == {"a", "b", "."}

FileNames ==
    UNION {[1..n -> NameChars] : n \in 1..MaxNameLen}
        \cup {f.originalFilename : f \in Files}

CreateImageNamed ==
    /\ last = Idle
    /\ created.images < MaxImages
    /\ \E name \in FileNames :
        LET file == [mimetype |-> "image/png", originalFilename |-> name,
                     content |-> "test"]
        IN  Call("createImage", [documentId |-> UnknownUuid, file |-> file],
                 createImage(St, UnknownUuid, file.mimetype, file.originalFilename,
                             RandomUuid(1), now))
    /\ created' = [created EXCEPT !.images = @ + 1]
    /\ UNCHANGED <<now, ticks>>

NextNames ==
    \/ CreateImageNamed
    \/ Return

SpecNames == Init /\ [][NextNames]_vars

-----------------------------------------------------------------------------
(* The claims.  Pre is the store the last call started from, St the store  *)
(* it left.                                                                *)

Pre == last.pre

Called(op) == last.op = op

Ids(rows) == Range(rows, "id")

\* the places of the documents with that id and that modificationSecret
Matching(docs, id, secret) ==
    {i \in 1..Len(docs) : docs[i].id = id /\ docs[i].modificationSecret = secret}

\* a document with that id exists and secret is its stored modificationSecret
SecretMatches(docs, id, secret) == Matching(docs, id, secret) # {}

\* the ids of the image rows that belong to one of the documents docIds
ImageIdsOf(imgs, docIds) ==
    {imgs[i].id : i \in {j \in 1..Len(imgs) : imgs[j].documentId \in docIds}}

\* C1: deleteDocument(id, secret) returns true and removes the document row
\* if and only if a document with that id exists and secret is its stored
\* modificationSecret; otherwise (unknown or malformed id, other secret) it
\* returns false.
C1_DeleteDocumentIffSecretMatches ==
    Called("deleteDocument") =>
        LET match == SecretMatches(Pre.documents, last.args.id, last.args.secret)
        IN  /\ ~last.threw
            /\ last.ret = match
            /\ match => last.args.id \notin Ids(documents)
            /\ ~match => (last.args.id \in Ids(documents)
                            <=> last.args.id \in Ids(Pre.documents))

C1_Witness ==
    /\ Called("deleteDocument")
    /\ last.ret = TRUE
    /\ Len(Pre.documents) = 2
    /\ Len(documents) = 1

\* C2: a deleteDocument call with an unknown id or a secret that does not
\* match leaves the whole store as it was: every document row, every image
\* row and every storage object.
C2_FailedDeleteChangesNothing ==
    (Called("deleteDocument")
        /\ ~SecretMatches(Pre.documents, last.args.id, last.args.secret))
    => St = Pre

C2_Witness ==
    /\ Called("deleteDocument")
    /\ last.ret = FALSE
    /\ last.args.id \in Ids(Pre.documents)
    /\ Pre.images # <<>>
    /\ Pre.bucket # {}

\* the documents the sweeper must remove: last accessed before now - maxAge
Expired(docs, args) ==
    {docs[i].id : i \in {j \in 1..Len(docs) :
        docs[j].lastAccessedAt < args.now - args.maxAgeInDays}}

\* C3: after one run of deleteOldDocuments, which takes no modification
\* secret, the remaining documents are exactly those whose lastAccessedAt is
\* not older than the cutoff, each unchanged, and no image row and no storage
\* object of a removed document remains.
C3_SweeperRemovesExactlyTheOld ==
    Called("deleteOldDocuments") =>
        LET gone == Expired(Pre.documents, last.args)
            Kept(d) == d.id \notin gone
        IN  /\ ~last.threw
            /\ documents = SelectSeq(Pre.documents, Kept)
            /\ \A i \in 1..Len(images) : images[i].documentId \notin gone
            /\ \A o \in bucket : o.key \notin ImageIdsOf(Pre.images, gone)

C3_Witness ==
    /\ Called("deleteOldDocuments")
    /\ Len(Pre.documents) = 2
    /\ Len(documents) = 1
    /\ Pre.images # <<>> /\ images = <<>>
    /\ Pre.bucket # {} /\ bucket = {}

\* C4: an upload request whose modificationSecret is not the stored secret of
\* the document is answered 403 and rejected, and the image rows and the
\* storage objects stay as they were.
C4_UploadWithWrongSecretRejected ==
    (Called("handleUploadImageRequest")
        /\ ~SecretMatches(Pre.documents, last.args.id, last.args.secret))
    => /\ last.ret.status = 403
       /\ last.ret.rejected
       /\ images = Pre.images
       /\ bucket = Pre.bucket

C4_Witness ==
    /\ Called("handleUploadImageRequest")
    /\ last.args.id \in Ids(Pre.documents)
    /\ last.args.secret \in Range(Pre.documents, "modificationSecret")
    /\ last.ret.status = 403

\* C5: no call changes the modificationSecret of a document: every document
\* that exists after a call and existed before it has the secret it had, so
\* every document keeps the secret it was created with.
C5_SecretNeverChanges ==
    last # Idle =>
        \A i \in 1..Len(documents), j \in 1..Len(Pre.documents) :
            documents[i].id = Pre.documents[j].id
            => documents[i].modificationSecret = Pre.documents[j].modificationSecret

C5_Witness ==
    /\ Called("updateDocument")
    /\ last.ret = TRUE
    /\ documents # Pre.documents
    /\ Len(documents) = 2

C7_NoImageWithoutDocument ==
    /\ \A i \in 1..Len(images) : images[i].documentId \in Ids(documents)
    /\ (Called("createImage") /\ last.args.documentId \notin Ids(Pre.documents))
       => images = Pre.images

\* C7 as amended: createImage does not look at the documents: whatever the
\* documentId, it appends exactly one image row that carries it.  The upload
\* handler alone ties an image to a document: the row it creates carries the
\* id of a document that exists and whose modificationSecret was supplied.
C7_CreateImageTakesAnyDocumentId ==
    /\ Called("createImage") =>
        /\ Len(images) = Len(Pre.images) + 1
        /\ SubSeq(images, 1, Len(Pre.images)) = Pre.images
        /\ images[Len(images)].documentId = last.args.documentId
        /\ last.ret = <<images[Len(images)]>>
    /\ (Called("handleUploadImageRequest") /\ images # Pre.images) =>
        /\ Len(images) = Len(Pre.images) + 1
        /\ images[Len(images)].documentId = last.args.id
        /\ SecretMatches(documents, last.args.id, last.args.secret)

C7_Witness ==
    /\ Called("createImage")
    /\ last.args.documentId \notin Ids(documents)
    /\ Len(images) = Len(Pre.images) + 1

\* C8: for a non-null owner getDocumentsByOwner(owner) returns exactly the
\* documents whose ownerExternalId is owner, each once, ordered by createdAt
\* ascending; it returns the empty list when there is none.
C8_OwnDocumentsInCreationOrder ==
    (Called("getDocumentsByOwner") /\ last.args.owner # Null) =>
        LET owned == {i \in 1..Len(Pre.documents) :
                        Pre.documents[i].ownerExternalId = last.args.owner}
        IN  /\ Len(last.ret) = Cardinality(owned)
            /\ {last.ret[k] : k \in 1..Len(last.ret)} = {Pre.documents[i] : i \in owned}
            /\ \A k \in 1..Len(last.ret), l \in 1..Len(last.ret) :
                    k < l => last.ret[k].createdAt <= last.ret[l].createdAt
            /\ owned = {} => last.ret = <<>>

C8_Witness ==
    /\ Called("getDocumentsByOwner")
    /\ Len(last.ret) = 2
    /\ last.ret[1].createdAt < last.ret[2].createdAt

\* C9: listing with a null owner reveals no document: getDocumentsByOwner(null)
\* and the get-own-documents handler without an owner return the empty list,
\* also when documents with ownerExternalId = null exist.
C9_NoAnonymousListing ==
    /\ (Called("getDocumentsByOwner") /\ last.args.owner = Null) => last.ret = <<>>
    /\ (Called("handleGetOwnDocumentsRequest") /\ last.args.owner = Null)
       => (last.ret.status = 200 /\ last.ret.body = <<>>)

C9_Witness ==
    /\ Called("handleGetOwnDocumentsRequest")
    /\ last.args.owner = Null
    /\ Null \in Range(documents, "ownerExternalId")
    /\ last.ret.body = <<>>

\* C10: isValidModificationSecret(id, secret) returns true exactly when a
\* document with that id exists and its stored modificationSecret is secret
\* (false for a malformed id, an unknown id, another secret), and it changes
\* nothing in the store.
C10_SecretCheckIsExactAndPure ==
    Called("isValidModificationSecret") =>
        /\ last.ret = SecretMatches(Pre.documents, last.args.id, last.args.secret)
        /\ last.args.id \in {InvalidId, UnknownUuid} => last.ret = FALSE
        /\ St = Pre

C10_Witness ==
    /\ Called("isValidModificationSecret")
    /\ last.ret = FALSE
    /\ last.args.id \in Ids(documents)
    /\ last.args.secret \in Range(documents, "modificationSecret")
-----------------------------------------------------------------------------
(* The sweeper run again.  A run of deleteOldDocuments either completes or *)
(* is interrupted after some of its calls; the caller then runs it again,  *)
(* at the same time and so with the same cutoff.                           *)

DeleteOldDocumentsInterrupted ==
    /\ last = Idle
    /\ \E done \in 0..(Len(SweepSteps(St, MaxAgeInDays, now)) - 1) :
        Call("deleteOldDocumentsInterrupted",
             [maxAgeInDays |-> MaxAgeInDays, now |-> now, done |-> done,
              calls |-> SubSeq(SweepSteps(St, MaxAgeInDays, now), 1, done)],
             deleteOldDocumentsInterrupted(St, MaxAgeInDays, now, done))
    /\ UNCHANGED <<now, created, ticks>>

\* first is the store the run before started from
DeleteOldDocumentsAgain ==
    /\ last.op \in {"deleteOldDocuments", "deleteOldDocumentsInterrupted"}
    /\ Call("deleteOldDocumentsAgain",
            [maxAgeInDays |-> MaxAgeInDays, now |-> now, first |-> last.pre,
             interrupted |-> last.threw],
            deleteOldDocuments(St, MaxAgeInDays, now))
    /\ UNCHANGED <<now, created, ticks>>

\* The configuration of the sweeper (docker-compose): an environment
\* variable left unset or empty takes the default after ":-".
Unset == "<unset>"

\* ${DOCKER_COMPOSE_APP_FEATURE_REMOVE_DOCUMENTS_TOGGLE:-true}
FeatureRemoveDocumentsToggleOn(env) ==
    IF env \in {Unset, ""} THEN "true" ELSE env

\* ${DOCKER_COMPOSE_APP_FEATURE_REMOVE_DOCUMENTS_TOGGLE:-false}
FeatureRemoveDocumentsToggle(env) ==
    IF env \in {Unset, ""} THEN "false" ELSE env

\* the default one day later
FeatureRemoveDocumentsMaxAgeInDaysLater(env) ==
    IF env = Undefined THEN MaxAgeInDays + 1 ELSE env

\* ${DOCKER_COMPOSE_APP_FEATURE_REMOVE_DOCUMENTS_MAX_AGE_IN_DAYS:-730}
FeatureRemoveDocumentsMaxAgeInDays(env) ==
    IF env = Undefined THEN MaxAgeInDays ELSE env

\* the sweeper runs only behind the feature flag
scheduledSweep(st, toggle, maxAgeInDays, t) ==
    IF toggle = "true" THEN deleteOldDocuments(st, maxAgeInDays, t)
    ELSE Unchanged(st, FALSE)

\* the scheduled run of the server under one configuration
ScheduledSweep ==
    /\ last = Idle
    /\ \E toggle \in {Unset, "", "false", "true"},
          maxAgeInDays \in {Undefined, MaxAgeInDays + 1} :
        Call("scheduledSweep",
             [toggle |-> toggle, maxAgeInDays |-> maxAgeInDays, now |-> now],
             scheduledSweep(St, FeatureRemoveDocumentsToggle(toggle),
                            FeatureRemoveDocumentsMaxAgeInDays(maxAgeInDays), now))
    /\ UNCHANGED <<now, created, ticks>>

NextSweep ==
    \/ Return
    \/ Tick
    \/ CreateDocument
    \/ UpdateLastAccessedAt
    \/ HandleUploadImageRequest
    \/ DeleteOldDocuments
    \/ DeleteOldDocumentsInterrupted
    \/ DeleteOldDocumentsAgain
    \/ ScheduledSweep

SpecSweep == Init /\ [][NextSweep]_vars

-----------------------------------------------------------------------------
(* Concurrent updateDocument calls.  Several requests are in progress at   *)
(* once; each is called, and later its update reaches the store and it     *)
(* returns, in any order.  inflight holds pre, the store when the first of *)
(* them was called, and for each call its arguments, its result and order, *)
(* the place of its write among the writes.                                *)

MaxCalls == 2

\* the contents written, each an opaque blob
UpdateDataValues == {"new", "newer"}

BeginUpdateDocument ==
    /\ last = Idle
    /\ Len(inflight.calls) < MaxCalls
    /\ \E id \in DocumentIdInputs, data \in UpdateDataValues :
        inflight' =
            [pre |-> IF inflight.calls = <<>> THEN St ELSE inflight.pre,
             calls |-> Append(inflight.calls,
                          [id |-> id, data |-> data, pc |-> "called",
                           ret |-> FALSE, order |-> 0])]
    /\ UNCHANGED <<documents, images, bucket, now, created, ticks, last, modal>>

CompleteUpdateDocument ==
    /\ \E c \in 1..Len(inflight.calls) :
        /\ inflight.calls[c].pc = "called"
        /\ LET call == inflight.calls[c]
               r == updateDocument(St, call.id, call.data, now)
               returned == {d \in 1..Len(inflight.calls) :
                               inflight.calls[d].pc = "returned"}
           IN  /\ documents' = r.documents
               /\ images' = r.images
               /\ bucket' = r.bucket
               /\ inflight' = [inflight EXCEPT !.calls[c] =
                      [call EXCEPT !.pc = "returned", !.ret = r.ret,
                                   !.order = Cardinality(returned) + 1]]
    /\ UNCHANGED <<now, created, ticks, last, modal>>

\* the callers have their results
FinishUpdates ==
    /\ inflight.calls # <<>>
    /\ \A c \in 1..Len(inflight.calls) : inflight.calls[c].pc = "returned"
    /\ inflight' = NoCalls
    /\ UNCHANGED <<documents, images, bucket, now, created, ticks, last, modal>>

NextUpdates ==
    \/ Return
    \/ Tick
    \/ CreateDocument
    \/ BeginUpdateDocument
    \/ CompleteUpdateDocument
    \/ FinishUpdates

SpecUpdates == Init /\ [][NextUpdates]_vars

-----------------------------------------------------------------------------
(* Several images.  Uploads go on until MaxImageRows image rows have been  *)
(* created, so that a document may own two images and an image may have a  *)
(* neighbour.                                                              *)

UploadImages ==
    /\ last = Idle
    /\ \E id \in DocumentIdInputs, secret \in SecretInputs, file \in Files :
        LET r == handleUploadImageRequest(St, id, secret, file, RandomUuid(1), now)
            drawn == Len(r.images) - Len(images)
        IN  /\ created.images + drawn <= MaxImageRows
            /\ Call("handleUploadImageRequest",
                    [id |-> id, secret |-> secret, file |-> file], r)
            /\ created' = [created EXCEPT !.images = @ + drawn]
    /\ UNCHANGED <<now, ticks>>

NextImages ==
    \/ Return
    \/ CreateDocument
    \/ UploadImages
    \/ DeleteImage

SpecImages == Init /\ [][NextImages]_vars

-----------------------------------------------------------------------------
(* Faults in a cascade.  deleteDocument and the sweeper make their calls   *)
(* one after another.  A storage request may fail for some keys, and the   *)
(* process may stop between two calls.                                     *)

\* the place of the first deleteImageFromBucket request that fails, 0 if
\* none does
FirstFailure(steps, failing) ==
    LET at == {i \in 1..Len(steps) :
                  steps[i].op = "deleteImageFromBucket" /\ steps[i].id \in failing}
    IN  IF at = {} THEN 0 ELSE CHOOSE i \in at : \A j \in at : i <= j

\* the calls made: all of them, or those up to the request that fails
CallsMade(steps, failing) ==
    IF FirstFailure(steps, failing) = 0 THEN steps
    ELSE SubSeq(steps, 1, FirstFailure(steps, failing))

\* the error of the failing request is not caught: the calls before it have
\* taken effect and none after it is made
RunStepsWithStorage(st, steps, failing) ==
    IF FirstFailure(steps, failing) = 0 THEN RunSteps(st, steps)
    ELSE LET r == RunSteps(st, SubSeq(steps, 1, FirstFailure(steps, failing) - 1))
         IN  Thrown(r.documents, r.images, r.bucket)

\* the calls of deleteDocument after its secret check
deleteDocumentSteps(st, id, modificationSecret) ==
    IF ~isValidModificationSecret(st, id, modificationSecret) THEN <<>>
    ELSE DocumentSteps(st, <<st.documents[DocumentFindFirst(st.documents,
                                                            <<Eq("id", id)>>)]>>)

deleteDocumentWithStorage(st, id, modificationSecret, failing) ==
    IF ~isValidModificationSecret(st, id, modificationSecret) THEN Unchanged(st, FALSE)
    ELSE RunStepsWithStorage(st, deleteDocumentSteps(st, id, modificationSecret), failing)

\* the process stops after the first done calls
deleteDocumentInterrupted(st, id, modificationSecret, done) ==
    LET r == RunSteps(st, SubSeq(deleteDocumentSteps(st, id, modificationSecret), 1, done))
    IN  Thrown(r.documents, r.images, r.bucket)

deleteOldDocumentsWithStorage(st, maxAgeInDays, t, failing) ==
    RunStepsWithStorage(st, SweepSteps(st, maxAgeInDays, t), failing)

\* failing: the keys for which the storage refuses the delete request
DeleteDocumentWithStorage ==
    /\ last = Idle
    /\ \E id \in DocumentIdInputs, secret \in SecretInputs, failing \in SUBSET Ids(images) :
        Call("deleteDocumentWithStorage",
             [id |-> id, secret |-> secret, failing |-> failing,
              calls |-> CallsMade(deleteDocumentSteps(St, id, secret), failing)],
             deleteDocumentWithStorage(St, id, secret, failing))
    /\ UNCHANGED <<now, created, ticks>>

DeleteDocumentInterrupted ==
    /\ last = Idle
    /\ \E id \in DocumentIdInputs, secret \in SecretInputs :
        \E done \in 0..(Len(deleteDocumentSteps(St, id, secret)) - 1) :
            Call("deleteDocumentInterrupted",
                 [id |-> id, secret |-> secret, done |-> done,
                  calls |-> SubSeq(deleteDocumentSteps(St, id, secret), 1, done)],
                 deleteDocumentInterrupted(St, id, secret, done))
    /\ UNCHANGED <<now, created, ticks>>

DeleteOldDocumentsWithStorage ==
    /\ last = Idle
    /\ \E failing \in SUBSET Ids(images) :
        Call("deleteOldDocumentsWithStorage",
             [maxAgeInDays |-> MaxAgeInDays, now |-> now, failing |-> failing,
              calls |-> CallsMade(SweepSteps(St, MaxAgeInDays, now), failing)],
             deleteOldDocumentsWithStorage(St, MaxAgeInDays, now, failing))
    /\ UNCHANGED <<now, created, ticks>>

NextFaults ==
    \/ Return
    \/ Tick
    \/ CreateDocument
    \/ UploadImages
    \/ DeleteDocumentWithStorage
    \/ DeleteDocumentInterrupted
    \/ DeleteOldDocumentsWithStorage
    \/ DeleteOldDocumentsInterrupted
    \/ DeleteOldDocuments
    \/ HandleDeleteDocumentRequest
    \/ HandleDeleteImageRequest

SpecFaults == Init /\ [][NextFaults]_vars

-----------------------------------------------------------------------------

(* An upload racing with a delete.  A request handler runs up to its next  *)
(* await and the calls of another request may come in between.  An upload  *)
(* checks the secret, creates the image row, then stores the object; a     *)
(* deleteDocument checks the secret, reads the document with its images,   *)
(* then makes its calls one by one; the sweeper reads the old documents,   *)
(* then makes its calls one by one.  inflight holds the requests in        *)
(* progress, each with its place pc.                                       *)

Uploads == {c \in 1..Len(inflight.calls) : inflight.calls[c].op = "handleUploadImageRequest"}
Deletes == {c \in 1..Len(inflight.calls) : inflight.calls[c].op # "handleUploadImageRequest"}

\* the request joins those in progress
Begin(call) ==
    /\ last = Idle
    /\ Len(inflight.calls) < MaxCalls
    /\ inflight' = [pre |-> IF inflight.calls = <<>> THEN St ELSE inflight.pre,
                    calls |-> Append(inflight.calls, call)]
    /\ UNCHANGED <<documents, images, bucket, now, created, ticks, last, modal>>

\* the request c moves on to the place pc and leaves the store of r
Step(c, call, r) ==
    /\ documents' = r.documents
    /\ images' = r.images
    /\ bucket' = r.bucket
    /\ inflight' = [inflight EXCEPT !.calls[c] = call]
    /\ UNCHANGED <<now, ticks, last, modal>>

BeginUpload ==
    /\ Uploads = {}
    /\ \E id \in Ids(documents), secret \in SecretInputs, file \in Files :
        Begin([op |-> "handleUploadImageRequest", id |-> id, secret |-> secret,
               file |-> file, pc |-> "called", imageId |-> InvalidId,
               ret |-> FALSE, threw |-> FALSE])

BeginDeleteDocument ==
    /\ Deletes = {}
    /\ \E id \in Ids(documents), secret \in SecretInputs :
        Begin([op |-> "deleteDocument", id |-> id, secret |-> secret,
               pc |-> "called", steps |-> <<>>, ret |-> FALSE, threw |-> FALSE])

BeginDeleteOldDocuments ==
    /\ Deletes = {}
    /\ Begin([op |-> "deleteOldDocuments", pc |-> "called", steps |-> <<>>,
              ret |-> FALSE, threw |-> FALSE])

\* await isValidModificationSecret: 403 and rejected when it is wrong
UploadCheck ==
    \E c \in Uploads :
        LET call == inflight.calls[c]
        IN  /\ call.pc = "called"
            /\ Step(c, IF isValidModificationSecret(St, call.id, call.secret)
                       THEN [call EXCEPT !.pc = "checked"]
                       ELSE [call EXCEPT !.pc = "returned", !.ret = 403, !.threw = TRUE],
                    St)
            /\ UNCHANGED created

\* await createImage
UploadCreate ==
    \E c \in Uploads :
        LET call == inflight.calls[c]
            r == createImage(St, call.id, call.file.mimetype,
                             call.file.originalFilename, RandomUuid(1), now)
        IN  /\ call.pc = "checked"
            /\ created.images < MaxImageRows
            /\ Step(c, [call EXCEPT !.pc = "created", !.imageId = r.ret[1].id], r)
            /\ created' = [created EXCEPT !.images = @ + 1]

\* await uploadEncryptedImage, then the 200 response
UploadStore ==
    \E c \in Uploads :
        LET call == inflight.calls[c]
        IN  /\ call.pc = "created"
            /\ Step(c, [call EXCEPT !.pc = "returned", !.ret = 200],
                    Store(documents, images,
                          uploadEncryptedImage(bucket, call.imageId, call.file.content)))
            /\ UNCHANGED created

\* await isValidModificationSecret: false when it is wrong
DeleteCheck ==
    \E c \in Deletes :
        LET call == inflight.calls[c]
        IN  /\ call.op = "deleteDocument"
            /\ call.pc = "called"
            /\ Step(c, IF isValidModificationSecret(St, call.id, call.secret)
                       THEN [call EXCEPT !.pc = "checked"]
                       ELSE [call EXCEPT !.pc = "returned"],
                    St)
            /\ UNCHANGED created

\* await the query: the document with its images, or the old documents with
\* theirs, as they are now
DeleteFind ==
    \E c \in Deletes :
        LET call == inflight.calls[c]
        IN  /\ \/ call.op = "deleteDocument" /\ call.pc = "checked"
               \/ call.op = "deleteOldDocuments" /\ call.pc = "called"
            /\ Step(c, [call EXCEPT !.pc = "running",
                            !.steps = IF call.op = "deleteDocument"
                                      THEN deleteDocumentSteps(St, call.id, call.secret)
                                      ELSE SweepSteps(St, MaxAgeInDays, now)],
                    St)
            /\ UNCHANGED created

\* the next call of the cascade, or the return once all are made
DeleteStep ==
    \E c \in Deletes :
        LET call == inflight.calls[c]
            r == RunStep(St, Head(call.steps))
        IN  /\ call.pc = "running"
            /\ IF call.steps = <<>>
               THEN Step(c, [call EXCEPT !.pc = "returned", !.ret = TRUE], St)
               ELSE Step(c, IF r.threw
                            THEN [call EXCEPT !.pc = "returned", !.threw = TRUE]
                            ELSE [call EXCEPT !.steps = Tail(@)],
                         r)
            /\ UNCHANGED created

\* before the race: documents are created, images uploaded, time passes
CreateDocumentBefore == inflight = NoCalls /\ CreateDocument
UploadBefore == inflight = NoCalls /\ HandleUploadImageRequest
TickBefore == inflight = NoCalls /\ Tick

NextRace ==
    \/ Return
    \/ TickBefore
    \/ CreateDocumentBefore
    \/ UploadBefore
    \/ BeginUpload
    \/ BeginDeleteDocument
    \/ BeginDeleteOldDocuments
    \/ UploadCheck
    \/ UploadCreate
    \/ UploadStore
    \/ DeleteCheck
    \/ DeleteFind
    \/ DeleteStep

SpecRace == Init /\ [][NextRace]_vars

-----------------------------------------------------------------------------

(* The OER image finder of the frontend (utils/oerFinder).  A URL string   *)
(* is given with what new URL() makes of it: whether it parses, its        *)
(* protocol, and its pathname split at "/" into segments of characters.    *)

Url(text, parses, protocol, path) ==
    [text |-> text, parses |-> parses, protocol |-> protocol, path |-> path]

NoUrl == Url(Null, FALSE, "", <<>>)

ImageUrls ==
    {Url("https://example.com/photos/cat.jpg", TRUE, "https:",
         << <<>>, <<"p", "h">>, <<"c", ".", "j">> >>),
     Url("http://example.com/image-service/abc123", TRUE, "http:",
         << <<>>, <<"i", "s">>, <<"a", "b", "c">> >>),
     Url("ftp://example.com/image.jpg", TRUE, "ftp:", << <<>>, <<"i", ".", "j">> >>),
     Url("javascript:alert(1)", TRUE, "javascript:", << <<"a">> >>),
     Url("not-a-url", FALSE, "", <<>>),
     Url("", FALSE, "", <<>>)}

SourceUrls ==
    {NoUrl,
     Url("https://openverse.org/photos/123", TRUE, "https:", << <<>>, <<"1">> >>),
     Url("data:text/html,x", TRUE, "data:", << <<"x">> >>)}

\* the protocol is not looked at
isValidImageUrlAnyProtocol(url) == url.parses

\* new URL(url) does not throw and the protocol is https: or http:
isValidImageUrl(url) == url.parses /\ url.protocol \in {"https:", "http:"}

ALLOWED_IMAGE_TYPES ==
    [type \in {"image/jpeg", "image/png", "image/gif", "image/webp"} |->
        CASE type = "image/jpeg" -> <<"j", "p", "g">>
          [] type = "image/png" -> <<"p", "n", "g">>
          [] type = "image/gif" -> <<"g", "i", "f">>
          [] OTHER -> <<"w", "e", "b", "p">>]

\* ALLOWED_IMAGE_TYPES[blob.type]: undefined, here <<>>, for a type that is
\* no key.  The type of a fetched blob is empty or a MIME type with "/", so
\* it names no inherited property of the object.
AllowedExtension(type) ==
    IF type \in DOMAIN ALLOWED_IMAGE_TYPES THEN ALLOWED_IMAGE_TYPES[type] ELSE <<>>

serverUrl == "https://test-server.example.com"

\* a value that counts as false in a condition: null or the empty string
Falsy(text) == text \in {Null, ""}

\* what the fetch gives: a rejection, or a response with its status and the
\* type of its blob
Rejected == "<rejected>"
FetchResults ==
    {[kind |-> Rejected, ok |-> FALSE, status |-> 0, type |-> ""]}
    \cup {[kind |-> "response", ok |-> FALSE, status |-> s, type |-> "image/png"] :
            s \in {404, 500}}
    \cup {[kind |-> "response", ok |-> TRUE, status |-> 200, type |-> t] :
            t \in {"image/jpeg", "image/png", "image/gif", "image/webp",
                   "image/svg+xml", "text/html", "image/jpeg;charset=binary", ""}}

\* what uploadImage gives: the stored path, null, the empty string, or a
\* rejection
UploadResults == {"images/uploaded-cat.jpg", Null, "", Rejected}

\* the outcome of the call: the rejection with its error or the returned
\* attrs, and the calls of uploadImage it made
Outcome(rejected, error, attrs, uploads) ==
    [rejected |-> rejected, error |-> error, attrs |-> attrs, uploads |-> uploads]

NoAttrs == [k \in {} |-> ""]

\* pathname.split('/').pop() ?? ''
UrlFilename(url) == IF url.path = <<>> THEN <<>> ELSE url.path[Len(url.path)]

\* urlFilename.includes('.') ? urlFilename : `oer-image.${extension}`
Filename(url, extension) ==
    IF \E i \in 1..Len(UrlFilename(url)) : UrlFilename(url)[i] = "."
    THEN UrlFilename(url)
    ELSE <<"o", "e", "r", "-", "i", "m", "a", "g", "e", ".">> \o extension

\* src always; the others only when given, the source URL only when valid
Attrs(uploadedPath, licenseUrl, sourceId, sourceUrl) ==
    [k \in {"src"}
           \cup (IF Falsy(licenseUrl) THEN {} ELSE {"data-license"})
           \cup (IF Falsy(sourceId) THEN {} ELSE {"data-source-id"})
           \cup (IF Falsy(sourceUrl.text) \/ ~isValidImageUrl(sourceUrl)
                 THEN {} ELSE {"data-source-url"}) |->
        CASE k = "src" -> <<serverUrl, "/", uploadedPath>>
          [] k = "data-license" -> licenseUrl
          [] k = "data-source-id" -> sourceId
          [] OTHER -> sourceUrl.text]

fetchAndUploadOerImage(imageUrl, licenseUrl, sourceId, sourceUrl, documentId, modificationSecret, fetched, uploaded) ==
    LET upload == [file |-> [name |-> Filename(imageUrl, AllowedExtension(fetched.type)),
                             type |-> fetched.type],
                   documentId |-> documentId,
                   modificationSecret |-> modificationSecret]
    IN  IF ~isValidImageUrl(imageUrl)
        THEN Outcome(TRUE, <<"Invalid image URL">>, NoAttrs, <<>>)
        ELSE IF fetched.kind = Rejected
        THEN Outcome(TRUE, <<"fetch">>, NoAttrs, <<>>)
        ELSE IF ~fetched.ok
        THEN Outcome(TRUE, <<"Failed to fetch image: ", fetched.status>>, NoAttrs, <<>>)
        ELSE IF AllowedExtension(fetched.type) = <<>>
        THEN Outcome(TRUE, <<"Unsupported image type: ", fetched.type>>, NoAttrs, <<>>)
        ELSE IF uploaded = Rejected
        THEN Outcome(TRUE, <<"uploadImage">>, NoAttrs, <<upload>>)
        ELSE IF Falsy(uploaded)
        THEN Outcome(TRUE, <<"Image upload failed">>, NoAttrs, <<upload>>)
        ELSE Outcome(FALSE, <<>>, Attrs(uploaded, licenseUrl, sourceId, sourceUrl),
                     <<upload>>)

\* one call with the test's document and secret; the store of the backend
\* is not touched
FetchAndUploadOerImage ==
    /\ last = Idle
    /\ \E imageUrl \in ImageUrls, licenseUrl \in {Null, "https://creativecommons.org/licenses/by/4.0/"},
          sourceId \in {Null, "", "openverse"}, sourceUrl \in SourceUrls,
          fetched \in FetchResults, uploaded \in UploadResults :
        Call("fetchAndUploadOerImage",
             [imageUrl |-> imageUrl, licenseUrl |-> licenseUrl, sourceId |-> sourceId,
              sourceUrl |-> sourceUrl, fetched |-> fetched, uploaded |-> uploaded],
             LET out == fetchAndUploadOerImage(imageUrl, licenseUrl, sourceId, sourceUrl,
                                               "doc-123", "secret-abc", fetched, uploaded)
             IN  [Unchanged(St, out) EXCEPT !.threw = out.rejected])
    /\ UNCHANGED <<now, created, ticks>>

NextOer ==
    \/ Return
    \/ FetchAndUploadOerImage

SpecOer == Init /\ [][NextOer]_vars

-----------------------------------------------------------------------------

(* The OER finder modal (components/OerFinderModal).  A card click runs    *)
(* handleCardClick to its end; the upload it starts settles later, and the *)
(* rest of the async function then runs in one piece.  React renders the   *)
(* component again some time after a state update; rendered is the value   *)
(* of uploading the last render saw.                                       *)

MaxClicks == 3

\* event.detail of a card click: no oer at all, or an oer with its image URL
ClickDetails ==
    {[oer |-> FALSE, imageUrl |-> NoUrl]}
    \cup {[oer |-> TRUE, imageUrl |-> url] : url \in ImageUrls \cup {NoUrl}}

\* the guard of the earlier version: the uploading state of the render that
\* created the handler
BusyAtRender(current, atRender) == atRender

\* uploadingRef.current
Busy(current, atRender) == current

\* finally without the reset of the ref
FinallyKeepsRef(m) == [m EXCEPT !.uploading = FALSE]

\* finally { uploadingRef.current = false; setUploading(false) }
Finally(m) == [m EXCEPT !.uploadingRef = FALSE, !.uploading = FALSE]

\* try: the image is inserted and the modal toggled
Inserted(m, attrs) ==
    [m EXCEPT !.inserted = Append(@, attrs),
              !.isModalOpen = ~@,
              !.toggles = @ + 1]

\* catch: setError(err.message)
Caught(m, error) == [m EXCEPT !.error = error]

handleCardClick(m, detail) ==
    IF ~detail.oer THEN m
    ELSE IF Busy(m.uploadingRef, m.rendered) THEN [m EXCEPT !.ignored = @ + 1]
    ELSE IF ~Falsy(detail.imageUrl.text) /\ isValidImageUrl(detail.imageUrl)
    THEN [m EXCEPT !.uploadingRef = TRUE,
                   !.uploading = TRUE,
                   !.error = <<>>,
                   !.pending = Append(@, detail.imageUrl)]
    ELSE m

\* the rest of the async function once fetchAndUploadOerImage has settled
\* with out
settled(m, p, out) ==
    LET rest == [m EXCEPT !.pending = SubSeq(@, 1, p - 1) \o SubSeq(@, p + 1, Len(@)),
                          !.completed = Append(@, out)]
    IN  Finally(IF out.rejected THEN Caught(rest, out.error)
                ELSE Inserted(rest, out.attrs))

CardClick ==
    /\ modal.isModalOpen
    /\ modal.clicks < MaxClicks
    /\ \E detail \in ClickDetails :
        modal' = [handleCardClick(modal, detail) EXCEPT !.clicks = @ + 1]
    /\ UNCHANGED <<documents, images, bucket, now, created, ticks, last, inflight>>

\* React renders the component with the current state
Render ==
    /\ modal.rendered # modal.uploading
    /\ modal' = [modal EXCEPT !.rendered = modal.uploading]
    /\ UNCHANGED <<documents, images, bucket, now, created, ticks, last, inflight>>

\* a call in flight settles: resolved with attrs or rejected
SettleUpload ==
    /\ \E p \in 1..Len(modal.pending), fetched \in FetchResults, uploaded \in UploadResults :
        modal' = settled(modal, p,
                         fetchAndUploadOerImage(modal.pending[p], Null, "openverse", NoUrl,
                                                "doc-123", "secret-abc", fetched, uploaded))
    /\ UNCHANGED <<documents, images, bucket, now, created, ticks, last, inflight>>

\* the user opens the modal again
OpenModal ==
    /\ ~modal.isModalOpen
    /\ modal' = [modal EXCEPT !.isModalOpen = TRUE]
    /\ UNCHANGED <<documents, images, bucket, now, created, ticks, last, inflight>>

NextModal ==
    \/ CardClick
    \/ Render
    \/ SettleUpload
    \/ OpenModal

SpecModal == Init /\ [][NextModal]_vars

\* a promise in flight settles and the event loop runs what awaits it
SpecModalFair == SpecModal /\ WF_vars(SettleUpload)

-----------------------------------------------------------------------------

(* The claims, continued *)

\* the image with that id exists and secret is the modificationSecret of the
\* document it belongs to
OwnerSecretMatches(st, imageId, secret) ==
    \E i \in 1..Len(st.images) :
        /\ st.images[i].id = imageId
        /\ SecretMatches(st.documents, st.images[i].documentId, secret)

\* C11: the delete-image handler answers 204 and removes the image row and
\* its storage object when the secret is the modificationSecret of the
\* document the image belongs to; otherwise (another secret, an id that is
\* no image) it answers 403, rejects, and the store stays as it was.
C11_DeleteImageNeedsOwnerSecret ==
    Called("handleDeleteImageRequest") =>
        LET NotIt(img) == img.id # last.args.id
        IN  IF OwnerSecretMatches(Pre, last.args.id, last.args.secret)
            THEN /\ ~last.threw
                 /\ last.ret.status = 204
                 /\ ~last.ret.rejected
                 /\ images = SelectSeq(Pre.images, NotIt)
                 /\ Len(images) = Len(Pre.images) - 1
                 /\ bucket = {o \in Pre.bucket : o.key # last.args.id}
                 /\ documents = Pre.documents
            ELSE /\ ~last.threw
                 /\ last.ret.status = 403
                 /\ last.ret.rejected
                 /\ St = Pre

C11_Witness ==
    /\ Called("handleDeleteImageRequest")
    /\ last.ret.status = 204
    /\ Pre.bucket # {} /\ bucket = {}
    /\ Pre.images # <<>> /\ images = <<>>

\* C12: the delete-document handler answers 200 and the document is gone
\* when id and modificationSecret match; it answers 404 when the secret is
\* wrong or no document has the id, and the documents are as before.
C12_DeleteDocumentHandlerStatus ==
    Called("handleDeleteDocumentRequest") =>
        /\ ~last.threw
        /\ IF SecretMatches(Pre.documents, last.args.id, last.args.secret)
           THEN /\ last.ret.status = 200
                /\ last.args.id \notin Ids(documents)
           ELSE /\ last.ret.status = 404
                /\ documents = Pre.documents

C12_Witness ==
    /\ Called("handleDeleteDocumentRequest")
    /\ last.ret.status = 200
    /\ Len(Pre.documents) = 2
    /\ last.args.id = Pre.documents[2].id
    /\ Len(documents) = 1

\* e is the extension of name: empty when name has no "." after its first
\* character (and for ".."), otherwise the end of name that begins with its
\* last "."
IsExtensionOf(e, name) ==
    LET Dotless(cs) == \A i \in 1..Len(cs) : cs[i] # "."
    IN  \/ /\ e = <<>>
           /\ \/ Dotless(Tail(name))
              \/ name = <<".", ".">>
        \/ /\ e # <<>>
           /\ name # <<".", ".">>
           /\ Len(e) < Len(name)
           /\ e = SubSeq(name, Len(name) - Len(e) + 1, Len(name))
           /\ e[1] = "."
           /\ Dotless(Tail(e))

\* C13: createImage stores as name "image" followed by the extension of the
\* original file name ("test.png" gives "image.png"): the stored name
\* depends on the extension alone, so original names with the same
\* extension get the same stored name.
C13_StoredNameIsImagePlusExtension ==
    Called("createImage") =>
        LET original == last.args.file.originalFilename
            stored == last.ret[1].name
        IN  /\ Len(stored) >= Len(ImageBaseName)
            /\ SubSeq(stored, 1, Len(ImageBaseName)) = ImageBaseName
            /\ IsExtensionOf(SubSeq(stored, Len(ImageBaseName) + 1, Len(stored)), original)
            /\ original = <<"t", "e", "s", "t", ".", "p", "n", "g">>
               => stored = <<"i", "m", "a", "g", "e", ".", "p", "n", "g">>
            /\ images[Len(images)].name = stored

C13_Witness ==
    /\ Called("createImage")
    /\ last.args.file.originalFilename = <<"a", ".", "b">>
    /\ last.ret[1].name = <<"i", "m", "a", "g", "e", ".", "b">>

\* the storage objects kept under key
ObjectsAt(objects, key) == {o \in objects : o.key = key}

C15_RerunEndsAsOneCompleteRun ==
    Called("deleteOldDocumentsAgain") =>
        LET complete == deleteOldDocuments(last.args.first, last.args.maxAgeInDays,
                                           last.args.now)
        IN  /\ ~last.threw
            /\ St = Store(complete.documents, complete.images, complete.bucket)

\* C15 as amended: running the sweeper again with the same cutoff, also
\* after a run that failed part-way, raises no error for rows already
\* deleted and ends with the document rows and image rows of one complete
\* run: the documents not older than the cutoff and their images.  After a
\* complete run it changes nothing.  The storage objects are those of one
\* complete run and, after an interrupted run, possibly objects of images
\* whose row that run had already deleted.
C15_RerunEndsWithRowsOfOneCompleteRun ==
    Called("deleteOldDocumentsAgain") =>
        LET first == last.args.first
            complete == deleteOldDocuments(first, last.args.maxAgeInDays, last.args.now)
            gone == Expired(first.documents, last.args)
            Kept(d) == d.id \notin gone
            KeptImage(img) == img.documentId \notin gone
        IN  /\ ~last.threw
            /\ ~complete.threw
            /\ documents = SelectSeq(first.documents, Kept)
            /\ images = SelectSeq(first.images, KeptImage)
            /\ documents = complete.documents
            /\ images = complete.images
            /\ complete.bucket \subseteq bucket
            /\ bucket \subseteq first.bucket
            /\ \A o \in bucket \ complete.bucket :
                    /\ o.key \in ImageIdsOf(first.images, gone)
                    /\ o.key \notin Ids(Pre.images)
            /\ ~last.args.interrupted => St = Pre

C15_Witness ==
    /\ Called("deleteOldDocumentsAgain")
    /\ last.args.interrupted
    /\ Len(last.args.first.documents) = 2
    /\ Len(Pre.documents) = 2
    /\ Len(documents) = 1
    /\ Pre.images = <<>>
    /\ bucket # {}

\* the rows with that id
RowsWithId(rows, id) == {rows[i] : i \in {j \in 1..Len(rows) : rows[j].id = id}}

\* C16: the read lookups fail soft.  fetchDocument returns null for a
\* malformed id and for an id of no document, getImage returns null for an
\* undefined, a malformed and an unknown id; neither throws, and then the
\* store is unchanged.  For the id of a row they return that row.
C16_LookupsFailSoft ==
    /\ Called("fetchDocument") =>
        /\ ~last.threw
        /\ IF last.args.id \in Ids(Pre.documents)
           THEN /\ Len(last.ret) = 1
                /\ last.ret[1].id = last.args.id
                /\ last.ret[1] \in RowsWithId(Pre.documents, last.args.id)
           ELSE /\ last.ret = <<>>
                /\ St = Pre
    /\ Called("getImage") =>
        /\ ~last.threw
        /\ IF last.args.id \in Ids(Pre.images)
           THEN /\ Len(last.ret) = 1
                /\ last.ret[1].id = last.args.id
                /\ last.ret[1] \in RowsWithId(Pre.images, last.args.id)
           ELSE /\ last.ret = <<>>
                /\ St = Pre

C16_Witness ==
    /\ Called("getImage")
    /\ last.args.id = Undefined
    /\ images # <<>>
    /\ Len(documents) = 2
    /\ last.ret = <<>>

\* C17: updateDocument(id, data) returns false without throwing and leaves
\* the store unchanged when id is malformed or no document has that id;
\* otherwise it returns true and sets the data of that document to data,
\* changing no other document.  It takes no modification secret.
C17_UpdateDocumentByIdAlone ==
    Called("updateDocument") =>
        /\ ~last.threw
        /\ DOMAIN last.args = {"id", "data"}
        /\ IF last.args.id \in Ids(Pre.documents)
           THEN /\ last.ret = TRUE
                /\ Len(documents) = Len(Pre.documents)
                /\ \A i \in 1..Len(Pre.documents) :
                       IF Pre.documents[i].id = last.args.id
                       THEN /\ documents[i].data = last.args.data
                            /\ \A k \in DOMAIN Pre.documents[i] \ {"data", "updatedAt"} :
                                   documents[i][k] = Pre.documents[i][k]
                       ELSE documents[i] = Pre.documents[i]
                /\ images = Pre.images
                /\ bucket = Pre.bucket
           ELSE /\ last.ret = FALSE
                /\ St = Pre

C17_Witness ==
    /\ Called("updateDocument")
    /\ last.ret = TRUE
    /\ Len(Pre.documents) = 2
    /\ last.args.id = Pre.documents[2].id
    /\ Pre.documents[2].data = Null
    /\ documents[2].data = "new"

\* C18: updateLastAccessedAt(id) on an existing document sets its
\* lastAccessedAt to the current time, which is not earlier than the value
\* before, and leaves its id, modificationSecret, ownerExternalId and data
\* as they were; for an unknown or malformed id it returns false and
\* changes nothing.
C18_UpdateLastAccessedAtSetsNow ==
    Called("updateLastAccessedAt") =>
        /\ ~last.threw
        /\ IF last.args.id \in Ids(Pre.documents)
           THEN /\ last.ret = TRUE
                /\ Len(documents) = Len(Pre.documents)
                /\ \A i \in 1..Len(Pre.documents) :
                       Pre.documents[i].id = last.args.id =>
                           /\ documents[i].lastAccessedAt = now
                           /\ documents[i].lastAccessedAt >= Pre.documents[i].lastAccessedAt
                           /\ \A k \in {"id", "modificationSecret", "ownerExternalId", "data"} :
                                  documents[i][k] = Pre.documents[i][k]
           ELSE /\ last.ret = FALSE
                /\ St = Pre

C18_Witness ==
    /\ Called("updateLastAccessedAt")
    /\ last.ret = TRUE
    /\ \E i \in 1..Len(documents) :
          /\ documents[i].id = last.args.id
          /\ documents[i].lastAccessedAt > Pre.documents[i].lastAccessedAt
          /\ documents[i].data = "new"

\* C19: createDocument adds exactly one document, with an id and a
\* modificationSecret that no document has, and stores ownerExternalId as
\* given (null when absent), changing no document that exists; so at all
\* times the ids of the documents are pairwise distinct and so are their
\* modificationSecrets.
C19_CreateDocumentIsFresh ==
    /\ \A i \in 1..Len(documents), j \in 1..Len(documents) :
          i # j => /\ documents[i].id # documents[j].id
                   /\ documents[i].modificationSecret # documents[j].modificationSecret
    /\ (Called("createDocument") \/ Called("handleCreateDocumentRequest")) =>
        LET new == documents[Len(documents)]
        IN  /\ ~last.threw
            /\ Len(documents) = Len(Pre.documents) + 1
            /\ SubSeq(documents, 1, Len(Pre.documents)) = Pre.documents
            /\ new.id \notin Ids(Pre.documents)
            /\ new.modificationSecret \notin Range(Pre.documents, "modificationSecret")
            /\ new.ownerExternalId = last.args.owner
            /\ Called("createDocument") => last.ret = <<new>>
            /\ Called("handleCreateDocumentRequest") =>
                   (last.ret.status = 200 /\ last.ret.body = <<new>>)
            /\ images = Pre.images
            /\ bucket = Pre.bucket

C19_Witness ==
    /\ Called("createDocument")
    /\ last.args.owner = Null
    /\ Len(documents) = 2
    /\ documents[2].ownerExternalId = Null
    /\ documents[1].data = "new"

\* the calls in progress on the document with that id
CallsOn(id) == {c \in 1..Len(inflight.calls) : inflight.calls[c].id = id}

AllReturned ==
    /\ inflight.calls # <<>>
    /\ \A c \in 1..Len(inflight.calls) : inflight.calls[c].pc = "returned"

\* C20: concurrent updateDocument calls on the same document are
\* last-write-wins.  Whatever the order in which they reach the store, once
\* all have returned the data of the document is the data of the call whose
\* write came last, whole, every call on it returned true, and of its other
\* fields only updatedAt differs from before; a document no call names is
\* as before.  At no time is its data anything but the data from before or
\* the data of one of the calls.
C20_ConcurrentUpdatesLastWriteWins ==
    inflight.calls # <<>> =>
        \A i \in 1..Len(inflight.pre.documents) :
            LET before == inflight.pre.documents[i]
                after == documents[i]
                on == CallsOn(before.id)
                written == {c \in on : inflight.calls[c].pc = "returned"}
            IN  /\ after.id = before.id
                /\ after.data \in {before.data} \cup {inflight.calls[c].data : c \in written}
                /\ \A k \in DOMAIN before \ {"data", "updatedAt"} : after[k] = before[k]
                /\ written = {} => after = before
                /\ (AllReturned /\ on # {}) =>
                       \E w \in on :
                           /\ \A c \in on : /\ inflight.calls[c].ret = TRUE
                                             /\ inflight.calls[c].order <= inflight.calls[w].order
                           /\ after.data = inflight.calls[w].data

C20_Witness ==
    /\ AllReturned
    /\ Len(inflight.calls) = 2
    /\ inflight.calls[1].id = inflight.calls[2].id
    /\ inflight.calls[1].data # inflight.calls[2].data
    /\ inflight.calls[1].order = 2
    /\ Len(documents) = 2
    /\ documents[2].id = inflight.calls[1].id
    /\ documents[2].data = inflight.calls[1].data
    /\ documents[2].updatedAt > inflight.pre.documents[2].updatedAt

-----------------------------------------------------------------------------
(* The claims on faults, configuration and the OER image finder *)

\* the documents of docIds that own an image whose storage request fails
OwnersOfFailing(imgs, docIds, failing) ==
    {d \in docIds : ImageIdsOf(imgs, {d}) \cap failing # {}}

ConfiguredMaxAge(args) ==
    IF args.maxAgeInDays = Undefined THEN 730 ELSE args.maxAgeInDays

\* C26: with the flag on, the sweeper's age test is strict and uses the
\* configured max age, 730 days when none is configured: a document whose
\* lastAccessedAt is at the cutoff or later is kept, one whose lastAccessedAt
\* is before the cutoff is deleted.
C26_StrictCutoffAtConfiguredAge ==
    (Called("scheduledSweep") /\ last.args.toggle = "true")
    => \A i \in 1..Len(Pre.documents) :
        LET doc == Pre.documents[i]
            cutoff == last.args.now - ConfiguredMaxAge(last.args)
        IN  IF doc.lastAccessedAt >= cutoff
            THEN \E j \in 1..Len(documents) : documents[j] = doc
            ELSE doc.id \notin Ids(documents)

\* under the default, a document with an image that was last accessed
\* exactly 730 days ago is kept
C26_Witness ==
    /\ Called("scheduledSweep")
    /\ last.args.toggle = "true"
    /\ last.args.maxAgeInDays = Undefined
    /\ last.args.now = 730
    /\ \E i \in 1..Len(documents) :
        /\ documents[i].lastAccessedAt = 0
        /\ ImageIdsOf(images, {documents[i].id}) # {}

\* the calls a cascade made, in order, are in last.args.calls
Cascades ==
    {"deleteDocumentWithStorage", "deleteDocumentInterrupted",
     "deleteOldDocumentsWithStorage", "deleteOldDocumentsInterrupted"}

\* the call [op, id] is among the first n of calls
CalledBefore(calls, n, op, id) ==
    \E i \in 1..n : calls[i] = [op |-> op, id |-> id]

\* C24: in deleteDocument and in the sweeper, wherever the run ends, a
\* document row is deleted only by a call that comes after deleteImage and
\* deleteImageFromBucket have both been called with the id of each image of
\* that document; deleteDocument makes no call at all unless the secret
\* check has passed.
C24_ImagesDeletedBeforeDocumentRow ==
    last.op \in Cascades =>
        LET calls == last.args.calls
        IN  /\ \A i \in 1..Len(calls) :
                calls[i].op = "document.delete" =>
                    \A k \in ImageIdsOf(Pre.images, {calls[i].id}) :
                        /\ CalledBefore(calls, i - 1, "deleteImage", k)
                        /\ CalledBefore(calls, i - 1, "deleteImageFromBucket", k)
            /\ \A d \in Ids(Pre.documents) \ Ids(documents) :
                CalledBefore(calls, Len(calls), "document.delete", d)
            /\ (last.op \in {"deleteDocumentWithStorage", "deleteDocumentInterrupted"}
                    /\ ~SecretMatches(Pre.documents, last.args.id, last.args.secret))
               => calls = <<>> /\ St = Pre

\* a document with two images is deleted: four image calls, then the row
C24_Witness ==
    /\ Called("deleteDocumentWithStorage")
    /\ ~last.threw
    /\ Cardinality(ImageIdsOf(Pre.images, {last.args.id})) = 2
    /\ Len(last.args.calls) = 5
    /\ last.args.calls[5] = [op |-> "document.delete", id |-> last.args.id]
    /\ last.args.id \notin Ids(documents)

\* the keys of the storage objects without an image row
Orphans(st) == {o.key : o \in st.bucket} \ Ids(st.images)

\* C27: a delete cascade that runs to completion adds no orphan, so that
\* without an earlier stop every object left belongs to an image row.  A stop
\* right after the deleteImage of an image with a stored object leaves that
\* object without a row, and no later call, sweeper run or delete handler,
\* removes an orphaned object.
C27_OrphansOnlyByInterruption ==
    /\ (last.op \in {"deleteDocumentWithStorage", "deleteOldDocumentsWithStorage",
                     "deleteOldDocuments", "handleDeleteDocumentRequest",
                     "handleDeleteImageRequest"}
            /\ ~last.threw)
       => Orphans(St) \subseteq Orphans(Pre)
    /\ (last.op \in {"deleteDocumentInterrupted", "deleteOldDocumentsInterrupted"}
            /\ last.args.done > 0)
       => LET stop == last.args.calls[last.args.done]
          IN  (stop.op = "deleteImage" /\ stop.id \in {o.key : o \in Pre.bucket})
              => stop.id \in Orphans(St)
    /\ last # Idle => Orphans(Pre) \subseteq Orphans(St)

\* after a stop left an orphan, the sweeper removes the document and the
\* orphan stays
C27_Witness ==
    /\ Called("deleteOldDocuments")
    /\ Orphans(Pre) # {}
    /\ Len(documents) < Len(Pre.documents)
    /\ Orphans(St) = Orphans(Pre)

\* C25: deleteImage(id) removes exactly the image row with that id and
\* returns it, leaving every other image row, every document and every
\* storage object as they were; for an id that names no image row it throws
\* and changes nothing.
C25_DeleteImageRemovesExactlyThatRow ==
    Called("deleteImage") =>
        LET Other(row) == row.id # last.args.id
        IN  IF last.args.id \in Ids(Pre.images)
            THEN /\ ~last.threw
                 /\ Len(last.ret) = 1
                 /\ last.ret[1].id = last.args.id
                 /\ \E i \in 1..Len(Pre.images) : Pre.images[i] = last.ret[1]
                 /\ images = SelectSeq(Pre.images, Other)
                 /\ Len(images) = Len(Pre.images) - 1
                 /\ documents = Pre.documents
                 /\ bucket = Pre.bucket
            ELSE last.threw /\ St = Pre

\* the first of two image rows is deleted; the second and both objects stay
C25_Witness ==
    /\ Called("deleteImage")
    /\ Len(Pre.images) = 2
    /\ last.args.id = Pre.images[1].id
    /\ images = <<Pre.images[2]>>
    /\ Cardinality(bucket) = 2

\* an id that names no image row, while image rows exist
C25_WitnessUnknown ==
    /\ Called("deleteImage")
    /\ last.args.id = UnknownUuid
    /\ Len(Pre.images) = 2
    /\ last.threw

\* an upload and a delete have both returned
RaceFinished ==
    /\ Uploads # {} /\ Deletes # {}
    /\ \A c \in 1..Len(inflight.calls) : inflight.calls[c].pc = "returned"

\* the documents that were there when the first request came in and are
\* gone now
Gone == Ids(inflight.pre.documents) \ Ids(documents)

\* the ids of the images of those documents: the rows from before and the
\* row the upload created
ImageIdsOfGone ==
    ImageIdsOf(inflight.pre.images, Gone)
    \cup {inflight.calls[c].imageId : c \in {u \in Uploads : inflight.calls[u].id \in Gone}}

\* C28: under every interleaving of an upload with a deleteDocument or a
\* sweeper run on the same document, once both have returned no image row
\* and no storage object remains for a document that no longer exists.
C28_NoImageOfDeletedDocumentAfterRace ==
    RaceFinished =>
        /\ \A i \in 1..Len(images) : images[i].documentId \notin Gone
        /\ \A o \in bucket : o.key \notin ImageIdsOfGone

\* C23: fetchAndUploadOerImage never calls uploadImage, and rejects, when the
\* image URL is not http(s), when the fetch fails or its response is not ok,
\* or when the type of the fetched blob is outside the allow-list; it
\* returns attributes only after one uploadImage call that returned a
\* non-empty path, and then src is the server URL, "/" and that path.
C23_OerImageUploadedOnlyWhenAllowed ==
    Called("fetchAndUploadOerImage") =>
        LET a == last.args
            out == last.ret
            httpUrl == a.imageUrl.parses /\ a.imageUrl.protocol \in {"http:", "https:"}
            fetchedOk == a.fetched.kind = "response" /\ a.fetched.ok
            allowed == a.fetched.type \in {"image/jpeg", "image/png", "image/gif",
                                           "image/webp"}
        IN  /\ ~(httpUrl /\ fetchedOk /\ allowed)
               => out.rejected /\ out.uploads = <<>>
            /\ ~out.rejected
               => /\ Len(out.uploads) = 1
                  /\ a.uploaded \notin {Null, "", Rejected}
                  /\ out.attrs["src"] = <<serverUrl, "/", a.uploaded>>
            /\ out.rejected => out.attrs = <<>>
            /\ St = Pre

\* a fetched image/svg+xml from an https URL: rejected without an upload
C23_Witness ==
    /\ Called("fetchAndUploadOerImage")
    /\ last.args.imageUrl.protocol = "https:"
    /\ last.args.fetched.ok
    /\ last.args.fetched.type = "image/svg+xml"
    /\ last.args.uploaded = "images/uploaded-cat.jpg"
    /\ last.ret.rejected
    /\ last.ret.error = <<"Unsupported image type: ", "image/svg+xml">>

\* the attributes are returned after the upload gave its path
C23_WitnessReturned ==
    /\ Called("fetchAndUploadOerImage")
    /\ ~last.ret.rejected
    /\ Len(last.ret.uploads) = 1
    /\ DOMAIN last.ret.attrs = {"src", "data-license", "data-source-id", "data-source-url"}

\* C29: in OerFinderModal at most one fetchAndUploadOerImage call is in
\* flight at any time, whatever the order of clicks, renders and settled
\* uploads: the guard is set exactly while a call is in flight, and a click
\* that finds it set starts no call.
C29_OneUploadInFlight ==
    /\ Len(modal.pending) <= 1
    /\ modal.uploadingRef <=> modal.pending # <<>>
    /\ Len(modal.pending) + Len(modal.completed) + modal.ignored <= modal.clicks

\* a click on a card has been dropped while the first upload is in flight,
\* before React rendered the spinner
C29_Witness ==
    /\ modal.ignored > 0
    /\ Len(modal.pending) = 1
    /\ modal.completed = <<>>
    /\ ~modal.rendered

\* the completed uploads that resolved
Resolved == {i \in 1..Len(modal.completed) : ~modal.completed[i].rejected}

\* what holds of the record of the uploads at every time
C30_InsertedOnlyOnSuccess ==
    /\ Len(modal.inserted) = Cardinality(Resolved)
    /\ modal.toggles = Cardinality(Resolved)
    /\ \A i \in 1..Len(modal.inserted) :
        \E c \in Resolved : modal.completed[c].attrs = modal.inserted[i]
    /\ (modal.pending = <<>> /\ modal.completed # <<>>)
       => /\ ~modal.uploadingRef /\ ~modal.uploading
          /\ modal.completed[Len(modal.completed)].rejected
             => modal.error = modal.completed[Len(modal.completed)].error

\* C30: every upload started by a card click eventually resets the guard
\* and the uploading flag to false, whether it resolves or rejects; an image
\* is inserted and the modal toggled once for every upload that resolved and
\* for no other, and after a rejected upload the error is its message.
C30_UploadAlwaysResets ==
    /\ [](C30_InsertedOnlyOnSuccess)
    /\ modal.uploadingRef ~> (~modal.uploadingRef /\ ~modal.uploading)

\* one upload resolved and a later one rejected: one image inserted, the
\* guard and the flag reset, the error set
C30_Witness ==
    /\ Len(modal.completed) = 2
    /\ ~modal.completed[1].rejected
    /\ modal.completed[2].rejected
    /\ Len(modal.inserted) = 1
    /\ modal.error # <<>>
    /\ ~modal.uploadingRef /\ ~modal.uploading

====
